---------------------------- MODULE Spec2Model ----------------------------
(***************************************************************************)
(* A model of src/api/typings.ts: the typings-fetch pipeline               *)
(*   getDependencyAndVersion -> sum -> extractFiles (mkdir, npm i,         *)
(*   manifest check, readDirectory, cleanFiles) -> prefix stripping ->     *)
(*   dropFiles -> rimraf.sync in the finally block.                        *)
(*                                                                         *)
(* JavaScript strings are sequences of one-character strings, so that      *)
(* split/join, startsWith/endsWith, indexOf and replace are computed as    *)
(* the code computes them.  A file's text is a sequence of runs            *)
(* [ch, n] (n copies of the character ch), which lets a text of several    *)
(* megabytes be written down.                                              *)
(***************************************************************************)
EXTENDS Integers, Sequences, FiniteSets, TLC

(***************************************************************************)
(* Bounds of the model.                                                    *)
(***************************************************************************)
\* longest specifier string drawn by ParserInit
MaxSpecLen == 6
\* longest specifier string drawn by PairInit, for each of the two runs
MaxPairLen == 4
\* most files in a directory tree drawn by CleanInit
MaxTreeFiles == 3

(***************************************************************************)
(* String primitives (methods of String.prototype and Array.prototype).    *)
(***************************************************************************)
\* Array.prototype.reduce: Op(accumulator, element) over seq from init.  Each
\* step's accumulator is a value before the next step reads it.
RECURSIVE Reduce(_, _, _)
Reduce(Op(_, _), seq, init) ==
  IF seq = <<>> THEN init
  ELSE CHOOSE y \in {Reduce(Op, Tail(s), Op(a, Head(s))) : s \in {seq}, a \in {init}} :
         TRUE

StartsWith(s, p) == Len(p) <= Len(s) /\ SubSeq(s, 1, Len(p)) = p

EndsWith(s, p) == Len(p) <= Len(s) /\ SubSeq(s, Len(s) - Len(p) + 1, Len(s)) = p

\* the 1-based positions at which sub occurs in s
Occurrences(s, sub) ==
  {i \in 1..(Len(s) - Len(sub) + 1) : SubSeq(s, i, i + Len(sub) - 1) = sub}

\* String.prototype.indexOf: 0-based, -1 when absent
IndexOf(s, sub) ==
  IF Occurrences(s, sub) = {} THEN -1
  ELSE (CHOOSE i \in Occurrences(s, sub) : \A j \in Occurrences(s, sub) : i <= j) - 1

\* String.prototype.replace(sub, "") with a string pattern: the first occurrence only
ReplaceFirst(s, sub) ==
  LET i == IndexOf(s, sub)
  IN  IF i = -1 THEN s
      ELSE SubSeq(s, 1, i) \o SubSeq(s, i + Len(sub) + 1, Len(s))

\* String.prototype.split(c) for a one-character separator
RECURSIVE Split(_, _)
Split(s, c) ==
  LET i == IndexOf(s, <<c>>)
  IN  IF i = -1 THEN <<s>>
      ELSE <<SubSeq(s, 1, i)>> \o Split(SubSeq(s, i + 2, Len(s)), c)

\* Array.prototype.join(c)
RECURSIVE Join(_, _)
Join(parts, c) ==
  IF Len(parts) = 0 THEN <<>>
  ELSE IF Len(parts) = 1 THEN parts[1]
  ELSE parts[1] \o <<c>> \o Join(Tail(parts), c)

\* the array left by Array.prototype.pop, and the element it returns
PopRest(parts) == SubSeq(parts, 1, Len(parts) - 1)
PopLast(parts) == parts[Len(parts)]

S_latest == <<"l", "a", "t", "e", "s", "t">>
S_at == <<"@">>
S_slash == <<"/">>

(***************************************************************************)
(* getDependencyAndVersion, src/api/typings.ts:9-24.                       *)
(***************************************************************************)
\* mutant: the version is cut at the first "@" of an unscoped specifier
GetDependencyAndVersion_FirstAt(depString) ==
  LET parts == Split(depString, "@")
  IN  IF (StartsWith(depString, S_at) /\ Len(parts) = 2) \/ Len(parts) = 1
      THEN [dependency |-> depString, version |-> S_latest]
      ELSE [dependency |-> parts[1], version |-> Join(Tail(parts), "@")]

GetDependencyAndVersion(depString) ==
  LET parts == Split(depString, "@")
  IN  IF (StartsWith(depString, S_at) /\ Len(parts) = 2) \/ Len(parts) = 1
      THEN [dependency |-> depString, version |-> S_latest]
      ELSE [dependency |-> Join(PopRest(parts), "@"), version |-> PopLast(parts)]

(***************************************************************************)
(* String literals of the source, and texts.                               *)
(***************************************************************************)
S_dot_ts == <<".", "t", "s">>
S_dot_d_ts == <<".", "d", ".", "t", "s">>
S_package_json == <<"p", "a", "c", "k", "a", "g", "e", ".", "j", "s", "o", "n">>
S_slash_package_json == S_slash \o S_package_json
S_src == <<"s", "r", "c">>
S_tests == <<"_", "_", "t", "e", "s", "t", "s", "_", "_">>
S_aws_sdk == <<"a", "w", "s", "-", "s", "d", "k">>
S_tmp == <<"/", "t", "m", "p", "/">>
S_node_modules == <<"/", "n", "o", "d", "e", "_", "m", "o", "d", "u", "l", "e", "s">>
S_types_scope == <<"@", "t", "y", "p", "e", "s", "/">>

\* a text given character by character
Lit(s) == [i \in 1..Len(s) |-> [ch |-> s[i], n |-> 1]]
\* the text of n copies of the character c
Rep(c, n) == <<[ch |-> c, n |-> n]>>

\* String.prototype.length of a text
TextLen(t) == Reduce(LAMBDA n, run : n + run.n, t, 0)

\* characters JSON.stringify writes for one character of a string
EscWidth(c) == IF c \in {"\"", "\\", "\n"} THEN 2 ELSE 1

\* length of JSON.stringify(text): the quotes and the escaped characters
EscLen(t) == Reduce(LAMBDA n, run : n + run.n * EscWidth(run.ch), t, 0)
QuotedLen(t) == 2 + EscLen(t)

(***************************************************************************)
(* JavaScript values: a string, an object { code }, undefined.             *)
(***************************************************************************)
Undefined == [type |-> "undefined"]
StrVal(t) == [type |-> "string", str |-> t]
CodeObj(t) == [type |-> "object", code |-> t]

T_object_Object ==
  Lit(<<"[", "o", "b", "j", "e", "c", "t", " ", "O", "b", "j", "e", "c", "t", "]">>)

\* the string JSON.parse and the template literals make of their argument
ToStringJS(v) == IF v.type = "string" THEN v.str ELSE T_object_Object

\* a value's truthiness in `a || b` and `!(a || b)`
Truthy(v) == v.type = "object" \/ (v.type = "string" /\ v.str # <<>>)

\* manifest texts:  {}   {"types":"i"}   {"typings":"i"}   {"types":""}   {
T_manifest_plain == Lit(<<"{", "}">>)
T_manifest_types ==
  Lit(<<"{", "\"", "t", "y", "p", "e", "s", "\"", ":", "\"", "i", "\"", "}">>)
T_manifest_typings ==
  Lit(<<"{", "\"", "t", "y", "p", "i", "n", "g", "s", "\"", ":", "\"", "i", "\"", "}">>)
T_manifest_types_empty ==
  Lit(<<"{", "\"", "t", "y", "p", "e", "s", "\"", ":", "\"", "\"", "}">>)
T_manifest_malformed == Lit(<<"{">>)

\* JSON.parse on the texts of this model: the parsed object's types and
\* typings fields, or a SyntaxError (ok = FALSE) for a text that is not JSON
JSONParse(t) ==
  CASE t = T_manifest_plain ->
         [ok |-> TRUE, types |-> Undefined, typings |-> Undefined]
    [] t = T_manifest_types ->
         [ok |-> TRUE, types |-> StrVal(Lit(<<"i">>)), typings |-> Undefined]
    [] t = T_manifest_typings ->
         [ok |-> TRUE, types |-> Undefined, typings |-> StrVal(Lit(<<"i">>))]
    [] t = T_manifest_types_empty ->
         [ok |-> TRUE, types |-> StrVal(<<>>), typings |-> Undefined]
    [] OTHER ->
         [ok |-> FALSE, types |-> Undefined, typings |-> Undefined]

(***************************************************************************)
(* JavaScript objects used as maps: the entries in insertion order.        *)
(***************************************************************************)
ObjKeys(o) == [i \in 1..Len(o) |-> o[i].key]
ObjHas(o, k) == \E i \in 1..Len(o) : o[i].key = k
ObjGet(o, k) == o[CHOOSE i \in 1..Len(o) : o[i].key = k].value

\* o[k] = v: an existing key keeps its place
ObjSet(o, k, v) ==
  IF ObjHas(o, k)
  THEN [i \in 1..Len(o) |-> IF o[i].key = k THEN [key |-> k, value |-> v] ELSE o[i]]
  ELSE Append(o, [key |-> k, value |-> v])

\* { ...a, ...b }
ObjSpread(a, b) == Reduce(LAMBDA o, e : ObjSet(o, e.key, e.value), b, a)

(***************************************************************************)
(* The file system under one scratch directory: the files in directory     *)
(* order, each [path (absolute), data (its text)].                         *)
(***************************************************************************)
\* the name of the entry of directory `location` that path p lies in or is
EntryName(p, location) ==
  LET rest == SubSeq(p, Len(location) + 2, Len(p))
      i == IndexOf(rest, S_slash)
  IN  IF i = -1 THEN rest ELSE SubSeq(rest, 1, i)

\* fs.readdirSync(location): the names of the entries, each once
ReaddirSync(tree, location) ==
  Reduce(LAMBDA names, f :
           IF /\ StartsWith(f.path, location \o S_slash)
              /\ \A i \in 1..Len(names) : names[i] # EntryName(f.path, location)
           THEN Append(names, EntryName(f.path, location))
           ELSE names,
         tree, <<>>)

\* fs.statSync(fullPath).isDirectory()
IsDirectory(tree, fullPath) ==
  \E i \in 1..Len(tree) : StartsWith(tree[i].path, fullPath \o S_slash)

FileExists(tree, fullPath) == \E i \in 1..Len(tree) : tree[i].path = fullPath

\* fs.readFileSync(fullPath).toString()
ReadFileSync(tree, fullPath) ==
  tree[CHOOSE i \in 1..Len(tree) : tree[i].path = fullPath].data

\* path.dirname
Dirname(p) ==
  LET slashes == Occurrences(p, S_slash)
      last == CHOOSE i \in slashes : \A j \in slashes : j <= i
  IN  IF slashes = {} THEN <<".">>
      ELSE IF last = 1 THEN S_slash
      ELSE SubSeq(p, 1, last - 1)

(***************************************************************************)
(* isFileValid, src/api/typings.ts:26-44.                                  *)
(***************************************************************************)
TYPE_ONLY_DIRECTORIES == {S_src}

IsFileValid(path) ==
  LET isTypeOnly ==
        \E dir \in TYPE_ONLY_DIRECTORIES : IndexOf(path, S_slash \o dir \o S_slash) > -1
      requiredEnding == IF isTypeOnly THEN S_dot_d_ts ELSE S_dot_ts
  IN  EndsWith(path, requiredEnding) \/ EndsWith(path, S_package_json)

(***************************************************************************)
(* readDirectory, src/api/typings.ts:46-67.  A blacklisted directory goes  *)
(* on to isFileValid, which rejects both blacklisted names, so that        *)
(* readFileSync is never called on a directory.                            *)
(***************************************************************************)
\* mutant: only the test fixtures are blacklisted
BLACKLISTED_DIRECTORIES_TestsOnly == {S_tests}

BLACKLISTED_DIRECTORIES == {S_tests, S_aws_sdk}

\* path.join(location, entry)
PathJoin(location, entry) == location \o S_slash \o entry

RECURSIVE ReadDirectory(_, _)
ReadDirectory(tree, location) ==
  Reduce(LAMBDA result, entry :
           IF /\ IsDirectory(tree, PathJoin(location, entry))
              /\ entry \notin BLACKLISTED_DIRECTORIES
           THEN ObjSpread(result, ReadDirectory(tree, PathJoin(location, entry)))
           ELSE IF ~IsFileValid(PathJoin(location, entry)) THEN result
           ELSE ObjSet(result, PathJoin(location, entry),
                       CodeObj(ReadFileSync(tree, PathJoin(location, entry)))),
         ReaddirSync(tree, location), <<>>)

(***************************************************************************)
(* cleanFiles, src/api/typings.ts:72-101.                                  *)
(***************************************************************************)
\* the try block of the filter: JSON.parse(files[checkedPath]) and the test
\* of parsed.typings || parsed.types; a SyntaxError is caught and ignored
DeclaresTypings(value) ==
  LET parsed == JSONParse(ToStringJS(value))
  IN  parsed.ok /\ (Truthy(parsed.typings) \/ Truthy(parsed.types))

\* the predicate of paths.filter
IsValidDependency(files, checkedPath) ==
  IF EndsWith(checkedPath, S_slash_package_json)
  THEN \/ DeclaresTypings(ObjGet(files, checkedPath))
       \/ \E i \in 1..Len(files) :
             /\ StartsWith(files[i].key, Dirname(checkedPath))
             /\ EndsWith(files[i].key, S_dot_ts)
  ELSE FALSE

KeepsPath(files, p) == EndsWith(p, S_dot_ts) \/ IsValidDependency(files, p)

\* paths.forEach, lines 94-98
CleanFiles(fileMap) ==
  Reduce(LAMBDA newFiles, p :
           IF KeepsPath(fileMap, p) THEN ObjSet(newFiles, p, ObjGet(fileMap, p))
           ELSE newFiles,
         ObjKeys(fileMap), <<>>)

(***************************************************************************)
(* sum (hash-sum), src/api/typings.ts:6 and :149.  The hash is taken as    *)
(* injective: each character of its input gives one hexadecimal digit.     *)
(***************************************************************************)
HexDigit(c) ==
  CASE c = "@" -> "0" [] c = "/" -> "1" [] c = "l" -> "2" [] c = "t" -> "3"
    [] c = "s" -> "4" [] c = "y" -> "5" [] c = "p" -> "6" [] c = "1" -> "7"
    [] c = "a" -> "a" [] c = "e" -> "e" [] OTHER -> "f"

Sum(s) == [i \in 1..Len(s) |-> HexDigit(s[i])]

\* mutant: the hash input is the two strings with nothing between them
HashInput_NoSeparator(dep, ver) == dep \o ver

\* `${dependency}@${version}`, the argument of sum at src/api/typings.ts:149
HashInput(dep, ver) == dep \o S_at \o ver

\* `/tmp/${dependencyLocation}` and `/tmp/${dependencyLocation}/node_modules`
ScratchDir(dependencyLocation) == S_tmp \o dependencyLocation
DependencyPath(dependencyLocation) == ScratchDir(dependencyLocation) \o S_node_modules

\* `${dependencyPath}/${dependency}/package.json`, src/api/typings.ts:113
PackageJSONPath(dependency, dependencyLocation) ==
  DependencyPath(dependencyLocation) \o S_slash \o dependency \o S_slash_package_json

(***************************************************************************)
(* MAX_RES_SIZE = 5.8 * 1024 * 1024 = 6081740.8, src/api/typings.ts:124,   *)
(* kept exact in tenths: n < MAX_RES_SIZE iff 10 n < 58 * 1024 * 1024.     *)
(***************************************************************************)
MAX_RES_SIZE_TENTHS == 58 * 1024 * 1024
BelowMax(n) == 10 * n < MAX_RES_SIZE_TENTHS
AboveMax(n) == 10 * n > MAX_RES_SIZE_TENTHS

(***************************************************************************)
(* JSON.stringify(x).length for the values the pipeline serializes.        *)
(***************************************************************************)
KeyLen(k) == Reduce(LAMBDA n, c : n + EscWidth(c), k, 0)

\* a string, { "code": ... } or { "module": ... }
RECURSIVE ValueLen(_)
ValueLen(v) ==
  IF v.type = "string" THEN QuotedLen(v.str)
  ELSE IF "code" \in DOMAIN v THEN 8 + QuotedLen(v.code) + 1
  ELSE 10 + ValueLen(v.module) + 1

EntriesLen(o) ==
  Reduce(LAMBDA n, e : n + (2 + KeyLen(e.key)) + 1 + ValueLen(e.value), o, 0)

\* JSON.stringify(o).length of a map o
StringifyLen(o) == 2 + EntriesLen(o) + (IF Len(o) > 1 THEN Len(o) - 1 ELSE 0)

\* JSON.stringify({ status: "ok", files: o }).length, src/api/typings.ts:166-169
ResultSize(o) == 23 + StringifyLen(o) + 1

(***************************************************************************)
(* The prefix stripping of src/api/typings.ts:156-164.                     *)
(***************************************************************************)
ModuleObj(v) == [type |-> "object", module |-> v]

FilesWithNoPrefix(fileMap, dependencyPath) ==
  Reduce(LAMBDA t, n :
           ObjSet(t, ReplaceFirst(n, dependencyPath), ModuleObj(ObjGet(fileMap, n))),
         ObjKeys(fileMap), <<>>)

\* Object.keys(files).some(p => /\.tsx?/.test(p)), src/api/typings.ts:155
HasTsPath(fileMap) == \E i \in 1..Len(fileMap) : IndexOf(fileMap[i].key, S_dot_ts) > -1

(***************************************************************************)
(* What the package manager may leave under node_modules for a dependency. *)
(***************************************************************************)
S_i_d_ts == <<"i">> \o S_dot_d_ts
S_j_d_ts == <<"j">> \o S_dot_d_ts

\* a declaration file that alone reaches the ceiling, and one of which two do
HugeLen == (MAX_RES_SIZE_TENTHS \div 10) + 1
HalfLen == (MAX_RES_SIZE_TENTHS \div 20) + 100

RegistryManifests ==
  {T_manifest_plain, T_manifest_types, T_manifest_malformed}

RegistryDeclarations(dir) ==
  { <<>>,
    <<[path |-> dir \o S_slash \o S_i_d_ts, data |-> Rep("x", 1)]>>,
    <<[path |-> dir \o S_slash \o S_i_d_ts, data |-> Rep("x", HugeLen)],
      [path |-> dir \o S_slash \o S_j_d_ts, data |-> Rep("x", 1)]>>,
    <<[path |-> dir \o S_slash \o S_i_d_ts, data |-> Rep("x", HalfLen)],
      [path |-> dir \o S_slash \o S_j_d_ts, data |-> Rep("x", HalfLen)]>> }

Registry(dependency, dependencyLocation) ==
  LET dir == DependencyPath(dependencyLocation) \o S_slash \o dependency
  IN  { decls \o <<[path |-> dir \o S_slash_package_json, data |-> m]>> :
          decls \in RegistryDeclarations(dir), m \in RegistryManifests }

(***************************************************************************)
(* State.                                                                  *)
(***************************************************************************)
Runs == {1, 2}

Specifiers ==
  { <<"a">>, <<"a", "@", "1">>, <<"@", "t", "y", "p", "e", "s", "/", "a">> }

VARIABLES
  pc,                  \* where each run of downloadDependencyTypings stands
  depQuery,            \* its argument
  dependency,          \* line 147
  version,             \* line 147
  dependencyLocation,  \* line 149: the scratch id
  fs,                  \* /tmp: scratch id -> the files under /tmp/<id>
  pkgText,             \* the manifest text read at line 114, when it was read
  scanned,             \* readDirectory(dependencyPath), line 119
  files,               \* the value of extractFiles, line 153
  stripped,            \* filesWithNoPrefix, lines 156-164
  result,              \* dropFiles: result, line 127
  index,               \* dropFiles: index, line 128
  ret,                 \* the value returned by downloadDependencyTypings
  primary,             \* the error raised inside the try block
  outcome,             \* "pending", "returned" or the error the caller observes
  reaped,              \* calls of rimraf.sync made by the run
  presentAtExit,       \* whether /tmp/<id> existed when the call returned or threw
  created,             \* whether the run's own mkdir made /tmp/<id>
  query,               \* the handler's query.depQuery, line 196
  response             \* what the handler passed to res.end, with res.statusCode

locals == <<depQuery, dependency, version, dependencyLocation>>
extracted == <<pkgText, scanned, files>>
budget == <<stripped, result, index>>
exits == <<ret, primary, outcome, reaped, presentAtExit>>
http == <<query, response>>
vars == <<pc, locals, fs, extracted, budget, exits, created, http>>

NoReturn == [files |-> <<>>, hasDropped |-> FALSE, droppedFileCount |-> 0]

\* res.end has not been called
NoResponse == [sent |-> FALSE]

\* downloadDependencyTypings is called directly: there is no request
NoRequest ==
  /\ query = [r \in Runs |-> Undefined]
  /\ response = [r \in Runs |-> NoResponse]

Exists(id) == id \in DOMAIN fs
Tree(id) == fs[id]

\* mkdir, npm i: the directory with the given files
WithDirOf(f, id, tree) == [x \in DOMAIN f \cup {id} |-> IF x = id THEN tree ELSE f[x]]
WithDir(id, tree) == WithDirOf(fs, id, tree)
\* rimraf: the directory gone
WithoutDir(id) == [x \in DOMAIN fs \ {id} |-> fs[x]]

InitLocals(queries) ==
  /\ depQuery \in [Runs -> queries]
  /\ dependency = [r \in Runs |-> <<>>]
  /\ version = [r \in Runs |-> <<>>]
  /\ dependencyLocation = [r \in Runs |-> <<>>]

InitRest ==
  /\ pkgText = [r \in Runs |-> Undefined]
  /\ scanned = [r \in Runs |-> <<>>]
  /\ files = [r \in Runs |-> <<>>]
  /\ stripped = [r \in Runs |-> <<>>]
  /\ result = [r \in Runs |-> <<>>]
  /\ index = [r \in Runs |-> 0]
  /\ ret = [r \in Runs |-> NoReturn]
  /\ primary = [r \in Runs |-> "none"]
  /\ outcome = [r \in Runs |-> "pending"]
  /\ reaped = [r \in Runs |-> 0]
  /\ presentAtExit = [r \in Runs |-> FALSE]
  /\ created = [r \in Runs |-> FALSE]

Init ==
  /\ pc = [r \in Runs |-> "start"]
  /\ InitLocals(Specifiers)
  /\ fs = <<>>
  /\ InitRest
  /\ NoRequest

(***************************************************************************)
(* downloadDependencyTypings, src/api/typings.ts:144-191, one action per   *)
(* step that another process sharing /tmp can observe.                     *)
(***************************************************************************)
\* an exception inside the try block: control goes to the finally block
Throw(r, error) ==
  /\ primary' = [primary EXCEPT ![r] = error]
  /\ pc' = [pc EXCEPT ![r] = "reap"]

\* a return inside the try block: the value is kept while finally runs
Return(r, value) ==
  /\ ret' = [ret EXCEPT ![r] = value]
  /\ pc' = [pc EXCEPT ![r] = "reap"]

\* lines 147-149.  parts.pop() is never undefined where it is used, so the
\* default of `version = "latest"` is never taken
Parse(r) ==
  /\ pc[r] = "start"
  /\ LET parsed == GetDependencyAndVersion(depQuery[r])
     IN  /\ dependency' = [dependency EXCEPT ![r] = parsed.dependency]
         /\ version' = [version EXCEPT ![r] = parsed.version]
         /\ dependencyLocation' =
              [dependencyLocation EXCEPT
                 ![r] = Sum(HashInput(parsed.dependency, parsed.version))]
  /\ pc' = [pc EXCEPT ![r] = "mkdir"]
  /\ UNCHANGED <<depQuery, fs, extracted, budget, exits, created, http>>

\* mutant: mkdir -p, which accepts a directory that exists
Mkdir_AcceptExisting(r) ==
  /\ pc[r] = "mkdir"
  /\ IF Exists(dependencyLocation[r])
     THEN UNCHANGED <<fs, created>>
     ELSE /\ fs' = WithDir(dependencyLocation[r], <<>>)
          /\ created' = [created EXCEPT ![r] = TRUE]
  /\ pc' = [pc EXCEPT ![r] = "npm"]
  /\ UNCHANGED <<locals, extracted, budget, exits, http>>

\* line 109, `cd /tmp && mkdir ${dependencyLocation}`: mkdir fails on an
\* existing directory, and execSync then throws
Mkdir(r) ==
  /\ pc[r] = "mkdir"
  /\ IF Exists(dependencyLocation[r])
     THEN /\ Throw(r, "InstallError")
          /\ UNCHANGED <<fs, ret, created>>
     ELSE /\ fs' = WithDir(dependencyLocation[r], <<>>)
          /\ created' = [created EXCEPT ![r] = TRUE]
          /\ pc' = [pc EXCEPT ![r] = "npm"]
          /\ UNCHANGED <<ret, primary>>
  /\ UNCHANGED <<locals, extracted, budget, outcome, reaped, presentAtExit, http>>

\* mutant: after a non-zero exit the installer is run again
NpmInstall_RetryOnFailure(r) ==
  /\ pc[r] = "npm"
  /\ \/ /\ primary' = [primary EXCEPT ![r] = "InstallError"]
        /\ UNCHANGED <<pc, fs, ret>>
     \/ /\ Exists(dependencyLocation[r])
        /\ \E tree \in Registry(dependency[r], dependencyLocation[r]) :
              fs' = WithDir(dependencyLocation[r], tree)
        /\ pc' = [pc EXCEPT ![r] = "manifest"]
        /\ UNCHANGED <<ret, primary>>
  /\ UNCHANGED <<locals, extracted, budget, outcome, reaped, presentAtExit,
                 created, http>>

\* line 109, `cd ${dependencyLocation} && HOME=/tmp npm i ...`: a non-zero
\* exit makes execSync throw; a zero exit leaves a package tree
NpmInstall(r) ==
  /\ pc[r] = "npm"
  /\ \/ /\ Throw(r, "InstallError")
        /\ UNCHANGED <<fs, ret>>
     \/ /\ Exists(dependencyLocation[r])
        /\ \E tree \in Registry(dependency[r], dependencyLocation[r]) :
              fs' = WithDir(dependencyLocation[r], tree)
        /\ pc' = [pc EXCEPT ![r] = "manifest"]
        /\ UNCHANGED <<ret, primary>>
  /\ UNCHANGED <<locals, extracted, budget, outcome, reaped, presentAtExit,
                 created, http>>

\* mutant: the manifest is read and parsed, and the scan follows whatever
\* the manifest holds
ReadManifest_AlwaysScan(r) ==
  /\ pc[r] = "manifest"
  /\ LET id == dependencyLocation[r]
         packageJSON == PackageJSONPath(dependency[r], id)
     IN  IF ~Exists(id) \/ ~FileExists(Tree(id), packageJSON)
         THEN /\ Throw(r, "ENOENT")
              /\ UNCHANGED <<extracted, ret>>
         ELSE LET text == ReadFileSync(Tree(id), packageJSON)
              IN  /\ pkgText' = [pkgText EXCEPT ![r] = StrVal(text)]
                  /\ IF ~JSONParse(text).ok
                     THEN /\ Throw(r, "SyntaxError")
                          /\ UNCHANGED <<scanned, files, ret>>
                     ELSE /\ pc' = [pc EXCEPT ![r] = "scan"]
                          /\ UNCHANGED <<scanned, files, ret, primary>>
  /\ UNCHANGED <<locals, fs, budget, outcome, reaped, presentAtExit, created, http>>

\* lines 112-117 of extractFiles
ReadManifest(r) ==
  /\ pc[r] = "manifest"
  /\ LET id == dependencyLocation[r]
         packageJSON == PackageJSONPath(dependency[r], id)
     IN  IF ~Exists(id) \/ ~FileExists(Tree(id), packageJSON)
         THEN /\ Throw(r, "ENOENT")
              /\ UNCHANGED <<extracted, ret>>
         ELSE LET text == ReadFileSync(Tree(id), packageJSON)
                  pkg == JSONParse(text)
              IN  /\ pkgText' = [pkgText EXCEPT ![r] = StrVal(text)]
                  /\ IF ~pkg.ok
                     THEN /\ Throw(r, "SyntaxError")
                          /\ UNCHANGED <<scanned, files, ret>>
                     ELSE IF /\ ~(Truthy(pkg.types) \/ Truthy(pkg.typings))
                             /\ ~StartsWith(dependency[r], S_types_scope)
                     THEN /\ files' = [files EXCEPT ![r] = <<>>]
                          /\ pc' = [pc EXCEPT ![r] = "assemble"]
                          /\ UNCHANGED <<scanned, ret, primary>>
                     ELSE /\ pc' = [pc EXCEPT ![r] = "scan"]
                          /\ UNCHANGED <<scanned, files, ret, primary>>
  /\ UNCHANGED <<locals, fs, budget, outcome, reaped, presentAtExit, created, http>>

\* line 119 of extractFiles: cleanFiles(readDirectory(dependencyPath))
Scan(r) ==
  /\ pc[r] = "scan"
  /\ LET id == dependencyLocation[r]
         dependencyPath == DependencyPath(id)
     IN  IF ~Exists(id) \/ ~IsDirectory(Tree(id), dependencyPath)
         THEN /\ Throw(r, "ENOENT")
              /\ UNCHANGED <<scanned, files, ret>>
         ELSE \E read \in {ReadDirectory(Tree(id), dependencyPath)} :
                /\ scanned' = [scanned EXCEPT ![r] = read]
                /\ files' = [files EXCEPT ![r] = CleanFiles(read)]
                /\ pc' = [pc EXCEPT ![r] = "assemble"]
                /\ UNCHANGED <<ret, primary>>
  /\ UNCHANGED <<locals, fs, pkgText, budget, outcome, reaped, presentAtExit,
                 created, http>>

\* lines 155-187
Assemble(r) ==
  /\ pc[r] = "assemble"
  /\ IF HasTsPath(files[r])
     THEN \E filesWithNoPrefix \in
                 {FilesWithNoPrefix(files[r], DependencyPath(dependencyLocation[r]))} :
            /\ stripped' = [stripped EXCEPT ![r] = filesWithNoPrefix]
            /\ IF AboveMax(ResultSize(filesWithNoPrefix))
               THEN /\ result' = [result EXCEPT ![r] = <<>>]
                    /\ index' = [index EXCEPT ![r] = 0]
                    /\ pc' = [pc EXCEPT ![r] = "drop"]
                    /\ UNCHANGED ret
               ELSE /\ Return(r, [files |-> filesWithNoPrefix, hasDropped |-> FALSE,
                                  droppedFileCount |-> 0])
                    /\ UNCHANGED <<result, index>>
     ELSE /\ Return(r, [files |-> <<>>, hasDropped |-> FALSE, droppedFileCount |-> 0])
          /\ UNCHANGED budget
  /\ UNCHANGED <<locals, fs, extracted, primary, outcome, reaped, presentAtExit,
                 created, http>>

\* the condition of the while loop of dropFiles, line 130
DropCondition(r) ==
  BelowMax(StringifyLen(result[r])) /\ index[r] < Len(ObjKeys(stripped[r]))

\* one iteration of the loop, line 131: paths[index] is assigned, index is not advanced
DropStep(r) ==
  /\ pc[r] = "drop"
  /\ DropCondition(r)
  /\ LET paths == ObjKeys(stripped[r])
         path == paths[index[r] + 1]
     IN  result' = [result EXCEPT ![r] = ObjSet(@, path, ObjGet(stripped[r], path))]
  /\ UNCHANGED <<pc, locals, fs, extracted, stripped, index, exits, created, http>>

\* the loop's exit and lines 134, 172-179
DropExit(r) ==
  /\ pc[r] = "drop"
  /\ ~DropCondition(r)
  /\ Return(r, [files |-> result[r], hasDropped |-> TRUE,
                droppedFileCount |-> index[r] + 1])
  /\ UNCHANGED <<locals, fs, extracted, budget, primary, outcome, reaped,
                 presentAtExit, created, http>>

\* mutant: the cleanup is a statement at the end of the try block, not a finally
Reap_OnReturnOnly(r) ==
  /\ pc[r] = "reap"
  /\ pc' = [pc EXCEPT ![r] = "done"]
  /\ IF primary[r] = "none"
     THEN /\ reaped' = [reaped EXCEPT ![r] = @ + 1]
          /\ fs' = WithoutDir(dependencyLocation[r])
          /\ outcome' = [outcome EXCEPT ![r] = "returned"]
     ELSE /\ outcome' = [outcome EXCEPT ![r] = primary[r]]
          /\ UNCHANGED <<fs, reaped>>
  /\ presentAtExit' = [presentAtExit EXCEPT ![r] = dependencyLocation[r] \in DOMAIN fs']
  /\ UNCHANGED <<locals, extracted, budget, ret, primary, created, http>>

\* mutant: the cleanup removes every scratch directory under /tmp
Reap_WholeTmp(r) ==
  /\ pc[r] = "reap"
  /\ pc' = [pc EXCEPT ![r] = "done"]
  /\ reaped' = [reaped EXCEPT ![r] = @ + 1]
  /\ fs' = <<>>
  /\ outcome' = [outcome EXCEPT
                   ![r] = IF primary[r] = "none" THEN "returned" ELSE primary[r]]
  /\ presentAtExit' = [presentAtExit EXCEPT ![r] = FALSE]
  /\ UNCHANGED <<locals, extracted, budget, ret, primary, created, http>>

\* lines 188-190: rimraf.sync in the finally block, then the pending return
\* or throw.  rimraf.sync removes the tree (a missing one is no error), or
\* throws on a tree it cannot remove, and a throw in finally replaces the
\* pending return or throw
Reap(r) ==
  /\ pc[r] = "reap"
  /\ pc' = [pc EXCEPT ![r] = "done"]
  /\ reaped' = [reaped EXCEPT ![r] = @ + 1]
  /\ \/ /\ fs' = WithoutDir(dependencyLocation[r])
        /\ outcome' = [outcome EXCEPT
                         ![r] = IF primary[r] = "none" THEN "returned" ELSE primary[r]]
     \/ /\ Exists(dependencyLocation[r])
        /\ fs' = fs
        /\ outcome' = [outcome EXCEPT ![r] = "RimrafError"]
  /\ presentAtExit' = [presentAtExit EXCEPT ![r] = dependencyLocation[r] \in DOMAIN fs']
  /\ UNCHANGED <<locals, extracted, budget, ret, primary, created, http>>

RunNext(r) ==
  \/ Parse(r)
  \/ Mkdir(r)
  \/ NpmInstall(r)
  \/ ReadManifest(r)
  \/ Scan(r)
  \/ Assemble(r)
  \/ DropStep(r)
  \/ DropExit(r)
  \/ Reap(r)

Next == \E r \in Runs : RunNext(r)

Spec == Init /\ [][Next]_vars

\* every run that has a step to take goes on taking steps
FairSpec == Spec /\ \A r \in Runs : WF_vars(RunNext(r))

(***************************************************************************)
(* getDependencyAndVersion on every specifier string of a bounded length:  *)
(* run 1 takes lines 147-149 of downloadDependencyTypings.                 *)
(***************************************************************************)
SpecAlphabet == {"@", "a", "/"}

SpecStrings == UNION {[1..k -> SpecAlphabet] : k \in 0..MaxSpecLen}

ParserInit ==
  /\ pc = [r \in Runs |-> IF r = 1 THEN "start" ELSE "off"]
  /\ InitLocals(SpecStrings)
  /\ depQuery[2] = <<>>
  /\ fs = <<>>
  /\ InitRest
  /\ NoRequest

ParserNext == Parse(1)

ParserSpec == ParserInit /\ [][ParserNext]_vars

(***************************************************************************)
(* readDirectory and cleanFiles on every tree of a bounded size: run 1     *)
(* has installed @types/a, whose manifest parses, and takes line 119.      *)
(* The tree holds that manifest and up to MaxTreeFiles more files of the   *)
(* dependency and of two other installed packages, a and ab.               *)
(***************************************************************************)
S_types_a == S_types_scope \o <<"a">>
CleanLocation == Sum(S_types_a \o S_at \o S_latest)

\* the candidate files in directory order: the path below node_modules, the
\* texts the file may hold, and whether every tree holds it
CleanUniverse ==
  << [rel |-> <<"/">> \o S_types_a \o S_slash \o S_i_d_ts,
      texts |-> {Rep("x", 1)}, always |-> FALSE],
     [rel |-> <<"/">> \o S_types_a \o S_slash_package_json,
      texts |-> {T_manifest_plain, T_manifest_types, T_manifest_typings,
                 T_manifest_types_empty},
      always |-> TRUE],
     [rel |-> <<"/", "a", "/">> \o S_tests \o <<"/", "t">> \o S_dot_ts,
      texts |-> {Rep("x", 1)}, always |-> FALSE],
     [rel |-> <<"/", "a", "/", "i">> \o S_dot_ts,
      texts |-> {Rep("x", 1)}, always |-> FALSE],
     [rel |-> <<"/", "a">> \o S_slash_package_json,
      texts |-> {T_manifest_plain, T_manifest_types, T_manifest_malformed},
      always |-> FALSE],
     [rel |-> <<"/", "a", "/">> \o S_src \o <<"/", "x">> \o S_package_json,
      texts |-> {T_manifest_plain}, always |-> FALSE],
     [rel |-> <<"/", "a", "/">> \o S_src \o <<"/", "y">> \o S_dot_ts,
      texts |-> {Rep("x", 1)}, always |-> FALSE],
     [rel |-> <<"/", "a", "/">> \o S_src \o <<"/", "z">> \o S_dot_d_ts,
      texts |-> {Rep("x", 1)}, always |-> FALSE],
     [rel |-> <<"/", "a", "b", "/">> \o S_aws_sdk \o <<"/", "l", "/", "k">> \o S_dot_d_ts,
      texts |-> {Rep("x", 1)}, always |-> FALSE],
     [rel |-> <<"/", "a", "b">> \o S_slash_package_json,
      texts |-> {T_manifest_plain, T_manifest_typings}, always |-> FALSE],
     [rel |-> <<"/", "a", "b", "/", "q", ".", "j", "s">>,
      texts |-> {Rep("x", 1)}, always |-> FALSE],
     [rel |-> <<"/", "a", "b", "/", "x">> \o S_dot_d_ts,
      texts |-> {Rep("x", 1)}, always |-> FALSE] >>

\* the trees made of the candidates from the i-th on, with at most `room`
\* files beside those every tree holds
RECURSIVE CleanTreesFrom(_, _)
CleanTreesFrom(i, room) ==
  IF i > Len(CleanUniverse) THEN {<<>>}
  ELSE LET slot == CleanUniverse[i]
           path == DependencyPath(CleanLocation) \o slot.rel
           with(n) == { <<[path |-> path, data |-> t]>> \o rest :
                          t \in slot.texts, rest \in CleanTreesFrom(i + 1, n) }
       IN  IF slot.always THEN with(room)
           ELSE CleanTreesFrom(i + 1, room)
                  \cup (IF room > 0 THEN with(room - 1) ELSE {})

CleanTrees == CleanTreesFrom(1, MaxTreeFiles)

CleanInit ==
  /\ pc = [r \in Runs |-> IF r = 1 THEN "scan" ELSE "off"]
  /\ depQuery = [r \in Runs |-> IF r = 1 THEN S_types_a ELSE <<>>]
  /\ dependency = [r \in Runs |-> IF r = 1 THEN S_types_a ELSE <<>>]
  /\ version = [r \in Runs |-> IF r = 1 THEN S_latest ELSE <<>>]
  /\ dependencyLocation = [r \in Runs |-> IF r = 1 THEN CleanLocation ELSE <<>>]
  /\ \E tree \in CleanTrees :
        /\ fs = WithDirOf(<<>>, CleanLocation, tree)
        /\ pkgText =
             [r \in Runs |->
                IF r = 1
                THEN StrVal(ReadFileSync(tree,
                              PackageJSONPath(S_types_a, CleanLocation)))
                ELSE Undefined]
  /\ scanned = [r \in Runs |-> <<>>]
  /\ files = [r \in Runs |-> <<>>]
  /\ stripped = [r \in Runs |-> <<>>]
  /\ result = [r \in Runs |-> <<>>]
  /\ index = [r \in Runs |-> 0]
  /\ ret = [r \in Runs |-> NoReturn]
  /\ primary = [r \in Runs |-> "none"]
  /\ outcome = [r \in Runs |-> "pending"]
  /\ reaped = [r \in Runs |-> 0]
  /\ presentAtExit = [r \in Runs |-> FALSE]
  /\ created = [r \in Runs |-> TRUE]
  /\ NoRequest

CleanNext == Scan(1)

CleanSpec == CleanInit /\ [][CleanNext]_vars

(***************************************************************************)
(* getDependencyAndVersion and sum in two runs, on every pair of specifier *)
(* strings of a bounded length.                                            *)
(***************************************************************************)
PairStrings == UNION {[1..k -> SpecAlphabet] : k \in 0..MaxPairLen}

PairInit ==
  /\ pc = [r \in Runs |-> "start"]
  /\ InitLocals(PairStrings)
  /\ fs = <<>>
  /\ InitRest
  /\ NoRequest

PairNext == \E r \in Runs : Parse(r)

PairSpec == PairInit /\ [][PairNext]_vars

(***************************************************************************)
(* The request handler, src/api/typings.ts:193-230.  query.depQuery of     *)
(* url.parse(req.url, true) is undefined, a string, or an array of strings *)
(* (a repeated parameter).                                                 *)
(***************************************************************************)
ArrVal(items) == [type |-> "object", items |-> items]

\* Array.isArray
IsArray(v) == v.type = "object" /\ "items" \in DOMAIN v

\* res.end(JSON.stringify({ status: "error", files: {}, error, stack })) with
\* res.statusCode = 422, lines 219-228; headers: whether lines 206-208 ran
ErrorResponse(message, headers) ==
  [sent |-> TRUE, statusCode |-> 422, status |-> "error", files |-> <<>>,
   hasDropped |-> FALSE, droppedFileCount |-> 0, error |-> message,
   headers |-> headers]

\* res.end(JSON.stringify({ status: "ok", files, droppedFileCount })), lines
\* 212-218; JSON.stringify leaves out a droppedFileCount that is undefined
OkResponse(value) ==
  [sent |-> TRUE, statusCode |-> 200, status |-> "ok", files |-> value.files,
   hasDropped |-> value.hasDropped, droppedFileCount |-> value.droppedFileCount,
   error |-> "none", headers |-> TRUE]

\* mutant: the handler calls downloadDependencyTypings without looking at
\* the query
Receive_NoValidation(r) ==
  /\ pc[r] = "request"
  /\ depQuery' = [depQuery EXCEPT ![r] = IF query[r].type = "string"
                                          THEN query[r].str ELSE <<"a">>]
  /\ pc' = [pc EXCEPT ![r] = "start"]
  /\ UNCHANGED <<dependency, version, dependencyLocation, fs, extracted, budget,
                 exits, created, http>>

\* lines 194-210: the query is checked, the headers are set and
\* downloadDependencyTypings is called
Receive(r) ==
  /\ pc[r] = "request"
  /\ IF ~Truthy(query[r])
     THEN /\ response' = [response EXCEPT
                            ![r] = ErrorResponse("Please provide a dependency", FALSE)]
          /\ pc' = [pc EXCEPT ![r] = "responded"]
          /\ UNCHANGED depQuery
     ELSE IF IsArray(query[r])
     THEN /\ response' = [response EXCEPT
                            ![r] = ErrorResponse("Dependency should not be an array",
                                                 FALSE)]
          /\ pc' = [pc EXCEPT ![r] = "responded"]
          /\ UNCHANGED depQuery
     ELSE /\ depQuery' = [depQuery EXCEPT ![r] = query[r].str]
          /\ pc' = [pc EXCEPT ![r] = "start"]
          /\ UNCHANGED response
  /\ UNCHANGED <<dependency, version, dependencyLocation, fs, extracted, budget,
                 exits, created, query>>

\* lines 210-228: the awaited call has returned or thrown
Respond(r) ==
  /\ pc[r] = "done"
  /\ response' = [response EXCEPT
                    ![r] = IF outcome[r] = "returned" THEN OkResponse(ret[r])
                           ELSE ErrorResponse(outcome[r], TRUE)]
  /\ pc' = [pc EXCEPT ![r] = "responded"]
  /\ UNCHANGED <<locals, fs, extracted, budget, exits, created, query>>

HandlerQueries ==
  { Undefined, StrVal(<<>>), ArrVal(<<(<<"a">>), (<<"a">>)>>),
    StrVal(<<"a">>), StrVal(S_types_scope \o <<"a">>) }

HandlerInit ==
  /\ pc = [r \in Runs |-> "request"]
  /\ InitLocals({<<>>})
  /\ fs = <<>>
  /\ InitRest
  /\ query \in [Runs -> HandlerQueries]
  /\ response = [r \in Runs |-> NoResponse]

HandlerNext == \E r \in Runs : Receive(r) \/ RunNext(r) \/ Respond(r)

HandlerSpec == HandlerInit /\ [][HandlerNext]_vars

(***************************************************************************)
(* Properties.                                                             *)
(***************************************************************************)
\* the run has left the try block with a return value (not with an error)
HasReturnValue(r) == pc[r] \in {"reap", "done"} /\ primary[r] = "none"

C2_ReturnedFilesBelowCeiling ==
  \A r \in Runs : HasReturnValue(r) => BelowMax(StringifyLen(ret[r].files))

\* C3: once the installer has returned, the run eventually produces a result
\* or an error.
C3_RunTerminates ==
  \A r \in Runs : (pc[r] = "manifest") ~> (pc[r] = "done")

\* C4: droppedFileCount is present exactly when files of the cleaned set were
\* left out of the returned mapping, and then equals cleaned minus emitted.
C4_DroppedFileCount ==
  \A r \in Runs :
    HasReturnValue(r) =>
      LET cleaned == Len(files[r])
          emitted == Len(ret[r].files)
      IN  /\ ret[r].hasDropped <=> emitted < cleaned
          /\ ret[r].hasDropped => ret[r].droppedFileCount = cleaned - emitted

\* C5: a manifest of the installed dependency that does not parse is not
\* fatal: the run raises no error for it, and goes on to an empty file set
\* (a dependency outside @types/) or to the scan (an @types/ dependency).
C5_MalformedManifestNotFatal ==
  \A r \in Runs :
    (pkgText[r].type = "string" /\ ~JSONParse(pkgText[r].str).ok) =>
      /\ primary[r] # "SyntaxError"
      /\ ~StartsWith(dependency[r], S_types_scope) =>
           (scanned[r] = <<>> /\ (HasReturnValue(r) => ret[r].files = <<>>))

\* C6: when a stage raised an error and the cleanup then fails, the caller
\* still observes the stage's error.
C6_PrimaryErrorObserved ==
  \A r \in Runs :
    (pc[r] = "done" /\ primary[r] # "none") => outcome[r] = primary[r]

\* the manifest text declares typings or types
ManifestDeclares(text) ==
  LET parsed == JSONParse(text)
  IN  parsed.ok /\ (Truthy(parsed.typings) \/ Truthy(parsed.types))

IsManifestPath(p) == EndsWith(p, S_slash_package_json)

\* C7: every manifest cleanFiles emits declares types/typings or has a .ts
\* file inside its own containing directory.
C7_NoDeadManifest ==
  \A r \in Runs :
    \A i \in 1..Len(files[r]) :
      IsManifestPath(files[r][i].key) =>
        \/ ManifestDeclares(files[r][i].value.code)
        \/ \E j \in 1..Len(files[r]) :
              /\ EndsWith(files[r][j].key, S_dot_ts)
              /\ StartsWith(files[r][j].key, Dirname(files[r][i].key) \o S_slash)

\* C8: cleanFiles keeps every manifest of readDirectory's file set whose
\* parsed JSON declares typings or types.
C8_DeclaringManifestKept ==
  \A r \in Runs :
    pc[r] = "assemble" =>
      \A i \in 1..Len(scanned[r]) :
        (/\ IsManifestPath(scanned[r][i].key)
         /\ ManifestDeclares(scanned[r][i].value.code))
          => ObjHas(files[r], scanned[r][i].key)

\* the parser as specified: no "@", or a leading "@" and no other, gives the
\* whole string and "latest"; otherwise the string is cut at its last "@"
SpecifiedParse(s) ==
  LET ats == Occurrences(s, S_at)
      last == CHOOSE i \in ats : \A j \in ats : j <= i
  IN  IF ats = {} \/ ats = {1}
      THEN [dependency |-> s, version |-> S_latest]
      ELSE [dependency |-> SubSeq(s, 1, last - 1),
            version |-> SubSeq(s, last + 1, Len(s))]

\* C9: getDependencyAndVersion gives the specified dependency and version
\* for every specifier string.
C9_ParserAsSpecified ==
  \A r \in Runs :
    pc[r] = "mkdir" =>
      /\ dependency[r] = SpecifiedParse(depQuery[r]).dependency
      /\ version[r] = SpecifiedParse(depQuery[r]).version

\* C9 (witness): "@a/a@a" has been parsed to "@a/a" and "a".
C9_Witness ==
  /\ pc[1] = "mkdir"
  /\ depQuery[1] = <<"@", "a", "/", "a", "@", "a">>
  /\ dependency[1] = <<"@", "a", "/", "a">>
  /\ version[1] = <<"a">>

\* C10: the dependency name returned by getDependencyAndVersion holds no "@"
\* other than a leading one.
C10_NoInnerAt ==
  \A r \in Runs :
    pc[r] = "mkdir" => \A i \in 2..Len(dependency[r]) : dependency[r][i] # "@"

\* C11: two runs address the same scratch directory only if their parsed
\* (dependency, version) pairs are identical: identical pairs give the
\* identical hash input and scratch id, and distinct pairs produced by
\* getDependencyAndVersion give distinct hash inputs and distinct scratch ids.
C11_SameScratchIffSamePair ==
  \A r, q \in Runs :
    (pc[r] = "mkdir" /\ pc[q] = "mkdir") =>
      LET samePair == dependency[r] = dependency[q] /\ version[r] = version[q]
      IN  /\ samePair <=> HashInput(dependency[r], version[r])
                            = HashInput(dependency[q], version[q])
          /\ samePair <=> dependencyLocation[r] = dependencyLocation[q]
          /\ dependencyLocation[r] = Sum(HashInput(dependency[r], version[r]))

\* C11 (witness): "aa@a" and "a@aa" have been parsed, to the distinct pairs
\* ("aa", "a") and ("a", "aa"), and the two scratch ids differ.
C11_Witness ==
  /\ pc[1] = "mkdir" /\ pc[2] = "mkdir"
  /\ depQuery[1] = <<"a", "a", "@", "a">>
  /\ depQuery[2] = <<"a", "@", "a", "a">>
  /\ dependency[1] = <<"a", "a">> /\ version[1] = <<"a">>
  /\ dependency[2] = <<"a">> /\ version[2] = <<"a", "a">>
  /\ dependencyLocation[1] # dependencyLocation[2]

\* C12: same-specifier runs are not serialized.  A run that has installed
\* into /tmp/<id> and has not finished reading from it can find the
\* directory gone, and when it does, another run for the identical
\* (dependency, version) pair has removed it in its cleanup.
C12_ScratchLostToSameSpecifierReap ==
  \A r \in Runs :
    (pc[r] \in {"manifest", "scan"} /\ ~Exists(dependencyLocation[r])) =>
      \E q \in Runs \ {r} :
        /\ dependency[q] = dependency[r]
        /\ version[q] = version[r]
        /\ dependencyLocation[q] = dependencyLocation[r]
        /\ pc[q] = "done"
        /\ reaped[q] = 1
        /\ outcome[q] # "RimrafError"

\* C12 (witness): one run has installed into the shared directory and read
\* the manifest, its scan is still to come, and the other run for the same
\* pair has finished its cleanup: the directory does not exist.
C12_Witness ==
  \E r \in Runs : \E q \in Runs \ {r} :
    /\ dependency[q] = dependency[r]
    /\ version[q] = version[r]
    /\ pc[r] = "scan"
    /\ pkgText[r].type = "string"
    /\ pc[q] = "done"
    /\ reaped[q] = 1
    /\ ~Exists(dependencyLocation[r])

\* the names of the directories a path lies beneath
AncestorNames(p) ==
  LET parts == Split(p, "/")
  IN  {parts[i] : i \in 1..(Len(parts) - 1)}

BeneathTestsOrAwsSdk(p) == AncestorNames(p) \cap {S_tests, S_aws_sdk} # {}

\* C13: readDirectory returns no path that lies beneath a directory named
\* "__tests__" or "aws-sdk", at any depth; the paths it returns are the
\* files it has read, so it reads no file beneath such a directory either.
C13_NothingBeneathBlacklisted ==
  \A r \in Runs :
    \A i \in 1..Len(scanned[r]) : ~BeneathTestsOrAwsSdk(scanned[r][i].key)

\* C13 (witness): the scanned tree holds a .ts file beneath __tests__ and a
\* .d.ts file two levels beneath aws-sdk, and the scan has returned the
\* other files without them.
C13_Witness ==
  /\ pc[1] = "assemble"
  /\ Len(scanned[1]) >= 2
  /\ LET tree == Tree(dependencyLocation[1])
     IN  /\ \E i \in 1..Len(tree) : S_tests \in AncestorNames(tree[i].path)
         /\ \E i \in 1..Len(tree) : S_aws_sdk \in AncestorNames(tree[i].path)
         /\ \A i \in 1..Len(tree) :
              BeneathTestsOrAwsSdk(tree[i].path) => ~ObjHas(scanned[1], tree[i].path)

\* the file's own name
BaseName(p) == PopLast(Split(p, "/"))

\* C14: of the files the scanner comes to (none beneath a blacklisted
\* directory) that are no manifest and have a directory named "src" among
\* their ancestors, readDirectory keeps exactly those whose path ends in
\* ".d.ts".
C14_SrcKeepsOnlyDeclarations ==
  \A r \in Runs :
    (pc[r] = "assemble" /\ Exists(dependencyLocation[r])) =>
      LET tree == Tree(dependencyLocation[r])
      IN  \A i \in 1..Len(tree) :
            (/\ BaseName(tree[i].path) # S_package_json
             /\ S_src \in AncestorNames(tree[i].path)
             /\ ~BeneathTestsOrAwsSdk(tree[i].path))
              => (ObjHas(scanned[r], tree[i].path)
                    <=> EndsWith(tree[i].path, S_dot_d_ts))

\* C15: when the installer command exits non-zero, the run reads no manifest,
\* performs no scan and does not invoke the installer again; its cleanup
\* runs, and the handler responds with status "error" and an empty files
\* mapping.  No response carries both an error and a non-empty file set.
C15_InstallErrorSurfaced ==
  \A r \in Runs :
    /\ primary[r] = "InstallError" =>
         /\ pc[r] \in {"reap", "done", "responded"}
         /\ pkgText[r] = Undefined
         /\ scanned[r] = <<>>
         /\ pc[r] \in {"done", "responded"} => reaped[r] = 1
         /\ response[r].sent =>
              /\ response[r].status = "error"
              /\ response[r].statusCode = 422
              /\ response[r].error # "none"
              /\ response[r].files = <<>>
    /\ response[r].sent =>
         /\ response[r].status = "ok" <=> response[r].error = "none"
         /\ response[r].error # "none" => response[r].files = <<>>

\* C15 (witness): a run made its directory, npm i exited non-zero, the
\* cleanup ran once and the handler has sent the error response.
C15_Witness ==
  \E r \in Runs :
    /\ created[r]
    /\ primary[r] = "InstallError"
    /\ pc[r] = "responded"
    /\ reaped[r] = 1
    /\ response[r].sent
    /\ response[r].status = "error"
    /\ response[r].error = "InstallError"
    /\ response[r].files = <<>>

\* the run has read the installed manifest, the manifest parses and holds
\* neither types nor typings, and the dependency is outside @types/
PlainUntypedManifest(r) ==
  /\ pkgText[r].type = "string"
  /\ JSONParse(pkgText[r].str).ok
  /\ JSONParse(pkgText[r].str).types = Undefined
  /\ JSONParse(pkgText[r].str).typings = Undefined
  /\ ~StartsWith(dependency[r], S_types_scope)

\* C16: for a dependency outside @types/ whose installed manifest declares
\* neither types nor typings, the tree scan is never performed, and the
\* value the run returns is { files: {} } with no droppedFileCount.
C16_UntypedShortCircuit ==
  \A r \in Runs :
    PlainUntypedManifest(r) =>
      /\ pc[r] \in {"assemble", "reap", "done"}
      /\ scanned[r] = <<>>
      /\ files[r] = <<>>
      /\ primary[r] = "none"
      /\ pc[r] \in {"reap", "done"} =>
           (ret[r].files = <<>> /\ ~ret[r].hasDropped)
      /\ outcome[r] \in {"pending", "returned", "RimrafError"}

\* C16 (witness): "a" was installed with the manifest {}; the run has
\* returned the empty file set without a scan.
C16_Witness ==
  \E r \in Runs :
    /\ PlainUntypedManifest(r)
    /\ dependency[r] = <<"a">>
    /\ pc[r] = "done"
    /\ outcome[r] = "returned"
    /\ scanned[r] = <<>>
    /\ ret[r].files = <<>>
    /\ ~ret[r].hasDropped

\* C17: in every value a run returns, each key of files is a collected
\* absolute path with /tmp/<id>/node_modules stripped from its front, and
\* its value is { module: c } with c the text of that file, a string.
C17_FilesAreModulesOfContent ==
  \A r \in Runs :
    HasReturnValue(r) =>
      \A i \in 1..Len(ret[r].files) :
        LET entry == ret[r].files[i]
            collected == DependencyPath(dependencyLocation[r]) \o entry.key
        IN  /\ ObjHas(scanned[r], collected)
            /\ DOMAIN entry.value = {"type", "module"}
            /\ entry.value.module = StrVal(ObjGet(scanned[r], collected).code)

\* the request's depQuery is missing (undefined or empty) or an array
BadQuery(r) == ~Truthy(query[r]) \/ IsArray(query[r])

\* C18: when the depQuery parameter is missing or array-valued, the handler
\* responds with an error and attempts no materialization: the run never
\* enters downloadDependencyTypings, so it computes no scratch id, makes and
\* removes no directory and never invokes the installer.
C18_BadQueryNoMaterialization ==
  \A r \in Runs :
    BadQuery(r) =>
      /\ pc[r] \in {"request", "responded"}
      /\ dependencyLocation[r] = <<>>
      /\ ~created[r]
      /\ reaped[r] = 0
      /\ pc[r] = "responded" =>
           /\ response[r].sent
           /\ response[r].status = "error"
           /\ response[r].statusCode = 422
           /\ response[r].files = <<>>

\* C18 (witness): a request with an array-valued depQuery and one without
\* depQuery have both been answered with an error, and /tmp holds nothing.
C18_Witness ==
  \E r, q \in Runs :
    /\ IsArray(query[r])
    /\ query[q] = Undefined
    /\ pc[r] = "responded" /\ pc[q] = "responded"
    /\ response[r].error = "Dependency should not be an array"
    /\ response[q].error = "Please provide a dependency"
    /\ response[r].files = <<>>
    /\ fs = <<>>

\* C19: scratch creation is exclusive.  A run invokes the installer only
\* after its own mkdir made /tmp/<id>; a run that found /tmp/<id> existing
\* fails with the command's error without installing or reading anything,
\* and its cleanup removes the directory it did not make.
C19_ExclusiveScratchCreation ==
  \A r \in Runs :
    /\ pc[r] \in {"npm", "manifest", "scan", "assemble", "drop"} => created[r]
    /\ pkgText[r] # Undefined => created[r]
    /\ (~created[r] /\ pc[r] \in {"reap", "done"}) =>
         /\ primary[r] = "InstallError"
         /\ pkgText[r] = Undefined
         /\ scanned[r] = <<>>
    /\ (~created[r] /\ pc[r] = "done") =>
         /\ reaped[r] = 1
         /\ outcome[r] \in {"InstallError", "RimrafError"}
         /\ outcome[r] = "InstallError" => ~presentAtExit[r]

\* C19 (witness): one run made /tmp/<id> and is about to install into it;
\* the other run for the same id found it existing, failed without
\* installing, and its cleanup has removed it.
C19_Witness ==
  \E r \in Runs : \E q \in Runs \ {r} :
    /\ dependencyLocation[q] = dependencyLocation[r]
    /\ created[q]
    /\ pc[q] = "npm"
    /\ ~created[r]
    /\ pc[r] = "done"
    /\ outcome[r] = "InstallError"
    /\ reaped[r] = 1
    /\ ~presentAtExit[r]
    /\ ~Exists(dependencyLocation[q])

=============================================================================
